---- MODULE Spec2Model ----
(* Model of methods/sbada-gan/train.py: the experiment() training loop of   *)
(* the SBADA-GAN trainer (startup, per-iteration protocol, periodic work)   *)
(* and the ImagePool history buffer it queries.                             *)
(*                                                                          *)
(* Abstractions.  Tensors are not modelled.  A model's parameters are a     *)
(* version number that an optimizer step increments; a gradient buffer is   *)
(* the set of <<loss, iteration>> backward calls accumulated in it; a       *)
(* tensor's autograd graph is the set of models whose parameters it         *)
(* depends on.  Loss weights are integers (the code's floats are only       *)
(* compared with 0.0 and copied).  The comparison of line 125,              *)
(* niter >= num_epochs * 0.75 * iter_per_epoch, is exact in binary floating *)
(* point for the values used and is computed as 4*niter >= 3*N*I.           *)
(* Optimizer steps write parameters without invalidating the retained       *)
(* graph, as torch.optim did when this code was written.                    *)
EXTENDS Integers, Sequences, FiniteSets, TLC

\* ------------------------------------------------------------------ bounds
MaxEpochs == 4
LongRun == 67
MaxSamples == 2
MaxBatch == 2
MaxPool == 1
MaxEta == 1
\* bounds of the ImagePool specification
MaxPoolBatch == 2
MaxPoolSize == 2
MaxQueries == 3

\* ------------------------------------------------------- program constants
CkptPeriod == 50

Models == {"cls_s", "cls_t", "dis_s", "dis_t", "gen_s_t", "gen_t_s"}

\* keys of config.yaml, as paths
WeightKeys == {"weight.alpha", "weight.beta", "weight.gamma", "weight.mu",
               "weight.new", "weight.eta"}
ConfigKeys == WeightKeys \cup {"batch_size", "pool_size", "lr", "weight_decay",
                               "gen_init", "dis_init"}

\* config lookups made before the loop, in program order; cast = float()/int()
StartupReads == << [key |-> "weight.alpha", cast |-> TRUE],
                   [key |-> "weight.beta", cast |-> TRUE],
                   [key |-> "weight.gamma", cast |-> TRUE],
                   [key |-> "weight.mu", cast |-> TRUE],
                   [key |-> "weight.new", cast |-> TRUE],
                   [key |-> "batch_size", cast |-> TRUE],
                   [key |-> "pool_size", cast |-> TRUE],
                   [key |-> "lr", cast |-> TRUE],
                   [key |-> "weight_decay", cast |-> TRUE],
                   [key |-> "gen_init", cast |-> FALSE],
                   [key |-> "dis_init", cast |-> FALSE] >>

\* the dict bound to the name config from line 92 on
OptConfig == [k \in {"lr", "weight_decay", "betas"} |-> [wf |-> TRUE, v |-> 1]]

\* variant: opt_gen built over the parameters of all six models
OptGroup_AllInGen(opt) ==
    IF opt = "opt_gen" THEN Models ELSE {"dis_s", "dis_t"}

\* parameter groups of the two Adam optimizers
OptGroup(opt) ==
    IF opt = "opt_gen" THEN {"gen_s_t", "gen_t_s", "cls_s", "cls_t"}
    ELSE {"dis_s", "dis_t"}

\* variant: zip([opt_gen, opt_dis], [loss_dis, loss_gen])
OptOrder_Swapped == << "opt_gen", "opt_dis" >>

\* for opt, loss in zip([opt_dis, opt_gen], [loss_dis, loss_gen])
OptOrder == << "opt_dis", "opt_gen" >>
LossOrder == << "loss_dis", "loss_gen" >>

Max(a, b) == IF a >= b THEN a ELSE b

IterPerEpoch(nsrc, ntgt, bs) == (Max(nsrc, ntgt) \div bs) + 1

\* niter >= num_epochs * 0.75 * iter_per_epoch
CurriculumActive(n, N, I) == 4 * n >= 3 * N * I

\* images held by a pool of capacity cap holding len after a query of n images
PoolLenAfter(len, n, cap) == IF len + n <= cap THEN len + n ELSE len

\* variant: one slot too many
PoolCapacity_OffByOne(ps, bs) == ps * bs + 1

\* ImagePool(pool_size * batch_size)
PoolCapacity(ps, bs) == ps * bs

\* variant: the fakes are not detached
Detach_Missing(graph) == graph

\* tensor.detach(): the result has no autograd graph
Detach(graph) == {}

\* variant: the mode is not restored
Train_Missing(m, md) == md

\* nn.Module.train() / nn.Module.eval() on model m
Train(m, md) == [md EXCEPT ![m] = TRUE]
Eval(m, md) == [md EXCEPT ![m] = FALSE]

VARIABLES
    num_epochs, n_src, n_tgt,   \* CLI argument and dataset sizes
    cfgfile,                    \* content of config.yaml: key -> [wf, v]
    config,                     \* dict currently bound to the name config
    eta, batch_size, pool_size, iter_per_epoch,
    niter, pc, halt,
    params, grads, training,    \* per model: version, gradient sources, mode
    iterStart,                  \* params at the start of the iteration
    fakes,                      \* graphs of fake_tgt_x, fake_src_x, fake_back_src_x
    losses,                     \* loss_gen, loss_dis of the iteration
    k,                          \* index of the optimizer loop (line 164)
    poolLen,                    \* images held by the two pools
    trace,                      \* steps of the current iteration
    evals, ckpts,               \* err_tgt events, checkpoint events
    pool, nquery, lastIn, lastOut, stored, pushedOut, fromPool  \* ImagePool

trainvars == << num_epochs, n_src, n_tgt, cfgfile, config, eta, batch_size,
                pool_size, iter_per_epoch, niter, pc, halt, params, grads,
                training, iterStart, fakes, losses, k, poolLen, trace,
                evals, ckpts >>
poolvars == << pool, nquery, lastIn, lastOut, stored, pushedOut, fromPool >>
vars == << trainvars, poolvars >>

\* ------------------------------------------------------------ config files
Good(bs, ps, e) ==
    [key \in ConfigKeys |->
        [wf |-> TRUE,
         v |-> CASE key = "batch_size" -> bs
                 [] key = "pool_size" -> ps
                 [] key = "weight.eta" -> e
                 [] OTHER -> 1]]
Missing(key, cfg) == [x \in (DOMAIN cfg) \ {key} |-> cfg[x]]
Malformed(key, cfg) == [cfg EXCEPT ![key] = [wf |-> FALSE, v |-> 0]]

ConfigFiles ==
    { Good(bs, ps, e) : bs \in 1..MaxBatch, ps \in 1..MaxPool, e \in 0..MaxEta }
    \cup { Missing(key, Good(1, 1, MaxEta)) : key \in ConfigKeys }
    \cup { Malformed(key, Good(1, 1, MaxEta)) : key \in ConfigKeys }

\* a lookup config[key] raises KeyError; float()/int() of a malformed value
\* raises ValueError
LookupFails(cfg, rd) ==
    \/ rd.key \notin DOMAIN cfg
    \/ rd.cast /\ ~cfg[rd.key].wf

StartupFails(cfg) ==
    \E i \in DOMAIN StartupReads : LookupFails(cfg, StartupReads[i])

\* variant: eta = float(config['weight']['eta']), like the other weights
EtaInit_FromConfig(cfg) ==
    IF "weight.eta" \in DOMAIN cfg THEN cfg["weight.eta"].v ELSE 0

\* eta = 0.0
EtaInit(cfg) == 0

NoLoss == [graph |-> {}, read |-> [m \in Models |-> 0], it |-> 0, eta |-> 0]

\* models_dict of line 204
CheckpointModels == {"cls_s", "cls_t", "dis_s", "dis_t", "gen_s_t", "gen_t_s"}

Epoch(n, I) == n \div I

\* --num_epochs: short runs, a run of exactly one checkpoint period, and a
\* run long enough to reach epoch 50 below the curriculum threshold
NumEpochsChoices == (0..MaxEpochs) \cup {CkptPeriod, LongRun}

\* ------------------------------------------------------------------- Init
PoolIdle ==
    /\ pool = << >>
    /\ nquery = 0
    /\ lastIn = << >>
    /\ lastOut = << >>
    /\ stored = {}
    /\ pushedOut = {}
    /\ fromPool = << >>

Init ==
    /\ num_epochs \in NumEpochsChoices
    /\ n_src \in 1..MaxSamples
    /\ n_tgt \in 1..MaxSamples
    /\ cfgfile \in ConfigFiles
    /\ config = cfgfile
    /\ eta = 0
    /\ batch_size = 0
    /\ pool_size = 0
    /\ iter_per_epoch = 0
    /\ niter = 0
    /\ pc = "start"
    /\ halt = "none"
    /\ params = [m \in Models |-> 0]
    /\ grads = [m \in Models |-> {}]
    /\ training = [m \in Models |-> TRUE]
    /\ iterStart = [m \in Models |-> 0]
    /\ fakes = [tgt |-> {}, src |-> {}, back |-> {}]
    /\ losses = [gen |-> NoLoss, dis_s |-> NoLoss, dis_t |-> NoLoss, dis |-> NoLoss]
    /\ k = 1
    /\ poolLen = [src |-> 0, tgt |-> 0]
    /\ trace = << >>
    /\ evals = << >>
    /\ ckpts = << >>
    /\ PoolIdle

\* ---------------------------------------------------------------- actions
\* lines 33-117: everything before the loop
Startup ==
    /\ pc = "start"
    /\ IF StartupFails(config)
       THEN /\ halt' = "config_error"
            /\ pc' = "halted"
            /\ UNCHANGED << config, eta, batch_size, pool_size, iter_per_epoch,
                            training >>
       ELSE /\ eta' = EtaInit(config)
            /\ batch_size' = config["batch_size"].v
            /\ pool_size' = config["pool_size"].v
            /\ iter_per_epoch' = IterPerEpoch(n_src, n_tgt, config["batch_size"].v)
            /\ config' = OptConfig
            /\ training' = Train("cls_t", Train("cls_s", training))
            /\ pc' = "fetch"
            /\ halt' = halt
    /\ UNCHANGED << num_epochs, n_src, n_tgt, cfgfile, niter, params, grads,
                    iterStart, fakes, losses, k, poolLen, trace, evals, ckpts >>
    /\ UNCHANGED poolvars

\* lines 119-123
Fetch ==
    /\ pc = "fetch"
    /\ niter' = niter + 1
    /\ iterStart' = params
    /\ trace' = << <<"fetch", "">> >>
    /\ pc' = "curriculum"
    /\ UNCHANGED << num_epochs, n_src, n_tgt, cfgfile, config, eta, batch_size,
                    pool_size, iter_per_epoch, halt, params, grads, training,
                    fakes, losses, k, poolLen, evals, ckpts >>
    /\ UNCHANGED poolvars

\* lines 125-126
CurriculumCheck ==
    /\ pc = "curriculum"
    /\ IF CurriculumActive(niter, num_epochs, iter_per_epoch)
       THEN IF "weight.eta" \in DOMAIN config
            THEN /\ eta' = config["weight.eta"].v
                 /\ pc' = "forward"
                 /\ halt' = halt
                 /\ trace' = Append(trace, <<"curriculum", "">>)
            ELSE /\ halt' = "key_error"
                 /\ pc' = "halted"
                 /\ UNCHANGED << eta, trace >>
       ELSE /\ pc' = "forward"
            /\ trace' = Append(trace, <<"curriculum", "">>)
            /\ UNCHANGED << eta, halt >>
    /\ UNCHANGED << num_epochs, n_src, n_tgt, cfgfile, config, batch_size,
                    pool_size, iter_per_epoch, niter, params, grads, training,
                    iterStart, fakes, losses, k, poolLen, evals, ckpts >>
    /\ UNCHANGED poolvars

\* lines 128-133
Forward ==
    /\ pc = "forward"
    /\ fakes' = [tgt |-> {"gen_s_t"}, back |-> {"gen_s_t", "gen_t_s"},
                 src |-> {"gen_t_s"}]
    /\ trace' = Append(trace, <<"forward", "">>)
    /\ pc' = "loss_gen"
    /\ UNCHANGED << num_epochs, n_src, n_tgt, cfgfile, config, eta, batch_size,
                    pool_size, iter_per_epoch, niter, halt, params, grads,
                    training, iterStart, losses, k, poolLen, evals, ckpts >>
    /\ UNCHANGED poolvars

\* lines 136-147
LossGen ==
    /\ pc = "loss_gen"
    /\ losses' = [losses EXCEPT !.gen =
          [graph |-> ({"cls_t"} \cup fakes.tgt)         \* beta term
                     \cup {"cls_s"}                     \* mu term
                     \cup ({"dis_s"} \cup fakes.src)    \* gamma term
                     \cup ({"dis_t"} \cup fakes.tgt)    \* alpha term
                     \cup ({"cls_s"} \cup fakes.src)    \* eta term
                     \cup ({"cls_s"} \cup fakes.back),  \* new term
           read |-> params, it |-> niter, eta |-> eta]]
    /\ trace' = Append(trace, <<"loss_gen", "">>)
    /\ pc' = "detach"
    /\ UNCHANGED << num_epochs, n_src, n_tgt, cfgfile, config, eta, batch_size,
                    pool_size, iter_per_epoch, niter, halt, params, grads,
                    training, iterStart, fakes, k, poolLen, evals, ckpts >>
    /\ UNCHANGED poolvars

\* lines 150-152
DetachFakes ==
    /\ pc = "detach"
    /\ fakes' = [x \in DOMAIN fakes |-> Detach(fakes[x])]
    /\ trace' = Append(trace, <<"detach", "">>)
    /\ pc' = "query_src"
    /\ UNCHANGED << num_epochs, n_src, n_tgt, cfgfile, config, eta, batch_size,
                    pool_size, iter_per_epoch, niter, halt, params, grads,
                    training, iterStart, losses, k, poolLen, evals, ckpts >>
    /\ UNCHANGED poolvars

\* lines 155-157: fake_src_x_pool.query(fake_src_x) and loss_dis_s
QuerySrc ==
    /\ pc = "query_src"
    /\ poolLen' = [poolLen EXCEPT !.src =
          PoolLenAfter(poolLen.src, batch_size,
                       PoolCapacity(pool_size, batch_size))]
    /\ losses' = [losses EXCEPT !.dis_s =
          [graph |-> {"dis_s"} \cup fakes.src, read |-> params, it |-> niter,
           eta |-> 0]]
    /\ trace' = Append(trace, <<"query", "src">>)
    /\ pc' = "query_tgt"
    /\ UNCHANGED << num_epochs, n_src, n_tgt, cfgfile, config, eta, batch_size,
                    pool_size, iter_per_epoch, niter, halt, params, grads,
                    training, iterStart, fakes, k, evals, ckpts >>
    /\ UNCHANGED poolvars

\* lines 158-160: fake_tgt_x_pool.query(fake_tgt_x) and loss_dis_t
QueryTgt ==
    /\ pc = "query_tgt"
    /\ poolLen' = [poolLen EXCEPT !.tgt =
          PoolLenAfter(poolLen.tgt, batch_size,
                       PoolCapacity(pool_size, batch_size))]
    /\ losses' = [losses EXCEPT !.dis_t =
          [graph |-> {"dis_t"} \cup fakes.tgt, read |-> params, it |-> niter,
           eta |-> 0]]
    /\ trace' = Append(trace, <<"query", "tgt">>)
    /\ pc' = "loss_dis"
    /\ UNCHANGED << num_epochs, n_src, n_tgt, cfgfile, config, eta, batch_size,
                    pool_size, iter_per_epoch, niter, halt, params, grads,
                    training, iterStart, fakes, k, evals, ckpts >>
    /\ UNCHANGED poolvars

\* line 162
LossDis ==
    /\ pc = "loss_dis"
    /\ losses' = [losses EXCEPT !.dis =
          [graph |-> losses.dis_s.graph \cup losses.dis_t.graph,
           read |-> losses.dis_s.read, it |-> niter, eta |-> 0]]
    /\ trace' = Append(trace, <<"loss_dis", "">>)
    /\ k' = 1
    /\ pc' = "zero_grad"
    /\ UNCHANGED << num_epochs, n_src, n_tgt, cfgfile, config, eta, batch_size,
                    pool_size, iter_per_epoch, niter, halt, params, grads,
                    training, iterStart, fakes, poolLen, evals, ckpts >>
    /\ UNCHANGED poolvars

LossOf(name) == IF name = "loss_gen" THEN losses.gen ELSE losses.dis

\* line 165: opt.zero_grad()
ZeroGrad ==
    /\ pc = "zero_grad"
    /\ grads' = [m \in Models |->
          IF m \in OptGroup(OptOrder[k]) THEN {} ELSE grads[m]]
    /\ trace' = Append(trace, <<"zero_grad", OptOrder[k]>>)
    /\ pc' = "backward"
    /\ UNCHANGED << num_epochs, n_src, n_tgt, cfgfile, config, eta, batch_size,
                    pool_size, iter_per_epoch, niter, halt, params, training,
                    iterStart, fakes, losses, k, poolLen, evals, ckpts >>
    /\ UNCHANGED poolvars

\* line 166: loss.backward(retain_graph=True)
Backward ==
    /\ pc = "backward"
    /\ grads' = [m \in Models |->
          IF m \in LossOf(LossOrder[k]).graph
          THEN grads[m] \cup { <<LossOrder[k], LossOf(LossOrder[k]).it>> }
          ELSE grads[m]]
    /\ trace' = Append(trace, <<"backward", LossOrder[k]>>)
    /\ pc' = "step"
    /\ UNCHANGED << num_epochs, n_src, n_tgt, cfgfile, config, eta, batch_size,
                    pool_size, iter_per_epoch, niter, halt, params, training,
                    iterStart, fakes, losses, k, poolLen, evals, ckpts >>
    /\ UNCHANGED poolvars

\* line 167: opt.step(), then the next pair of the zip or the end of the loop
Step ==
    /\ pc = "step"
    /\ params' = [m \in Models |->
          IF m \in OptGroup(OptOrder[k]) /\ grads[m] # {}
          THEN params[m] + 1 ELSE params[m]]
    /\ trace' = Append(trace, <<"step", OptOrder[k]>>)
    /\ IF k < Len(OptOrder)
       THEN /\ k' = k + 1
            /\ pc' = "zero_grad"
       ELSE /\ k' = k
            /\ pc' = "periodic"
    /\ UNCHANGED << num_epochs, n_src, n_tgt, cfgfile, config, eta, batch_size,
                    pool_size, iter_per_epoch, niter, halt, grads, training,
                    iterStart, fakes, losses, poolLen, evals, ckpts >>
    /\ UNCHANGED poolvars

\* lines 169-187: scalar logging, epoch boundary test, image grid
Periodic ==
    /\ pc = "periodic"
    /\ pc' = IF niter % iter_per_epoch = 0 THEN "eval_begin" ELSE "fetch"
    /\ UNCHANGED << num_epochs, n_src, n_tgt, cfgfile, config, eta, batch_size,
                    pool_size, iter_per_epoch, niter, halt, params, grads,
                    training, iterStart, fakes, losses, k, poolLen, trace,
                    evals, ckpts >>
    /\ UNCHANGED poolvars

\* line 189: cls_t.eval()
EvalBegin ==
    /\ pc = "eval_begin"
    /\ training' = Eval("cls_t", training)
    /\ pc' = "eval_pass"
    /\ UNCHANGED << num_epochs, n_src, n_tgt, cfgfile, config, eta, batch_size,
                    pool_size, iter_per_epoch, niter, halt, params, grads,
                    iterStart, fakes, losses, k, poolLen, trace, evals, ckpts >>
    /\ UNCHANGED poolvars

\* lines 191-199: pass over tgt_test and the err_tgt event
EvalPass ==
    /\ pc = "eval_pass"
    /\ evals' = Append(evals, [epoch |-> Epoch(niter, iter_per_epoch),
                               niter |-> niter,
                               training |-> training["cls_t"]])
    /\ pc' = "epoch_end"
    /\ UNCHANGED << num_epochs, n_src, n_tgt, cfgfile, config, eta, batch_size,
                    pool_size, iter_per_epoch, niter, halt, params, grads,
                    training, iterStart, fakes, losses, k, poolLen, trace,
                    ckpts >>
    /\ UNCHANGED poolvars

\* lines 201-211: cls_t.train(), checkpoint every 50 epochs, terminal check
EpochEnd ==
    /\ pc = "epoch_end"
    /\ training' = Train("cls_t", training)
    /\ ckpts' = IF Epoch(niter, iter_per_epoch) % CkptPeriod = 0
                THEN Append(ckpts, [epoch |-> Epoch(niter, iter_per_epoch),
                                    niter |-> niter,
                                    models |-> CheckpointModels])
                ELSE ckpts
    /\ IF Epoch(niter, iter_per_epoch) >= num_epochs
       THEN /\ halt' = "break"
            /\ pc' = "halted"
       ELSE /\ halt' = halt
            /\ pc' = "fetch"
    /\ UNCHANGED << num_epochs, n_src, n_tgt, cfgfile, config, eta, batch_size,
                    pool_size, iter_per_epoch, niter, params, grads, iterStart,
                    fakes, losses, k, poolLen, trace, evals >>
    /\ UNCHANGED poolvars

Next ==
    \/ Startup
    \/ Fetch
    \/ CurriculumCheck
    \/ Forward
    \/ LossGen
    \/ DetachFakes
    \/ QuerySrc
    \/ QueryTgt
    \/ LossDis
    \/ ZeroGrad
    \/ Backward
    \/ Step
    \/ Periodic
    \/ EvalBegin
    \/ EvalPass
    \/ EpochEnd

Spec == Init /\ [][Next]_vars

\* -------------------------------------------------------------- ImagePool
\* The history buffer (util/image_pool.py), driven as experiment() drives
\* it: one query per iteration with a batch of batch_size fresh fakes.  An
\* image is <<q, i>>: input i of query q.  Both buffers of experiment() are
\* constructed with the same capacity and behave alike; one is modelled.

\* one image of a query: c = 0 is the draw >= 0.5 (pass the input through),
\* c = r > 0 is the draw < 0.5 with random slot r
QueryImage(st, img, c, cap, q) ==
    IF Len(st.pool) < cap
    THEN [st EXCEPT !.pool = Append(st.pool, img),
                    !.stored = st.stored \cup {img},
                    !.out = Append(st.out, img)]
    ELSE IF c = 0
    THEN [st EXCEPT !.out = Append(st.out, img)]
    ELSE [st EXCEPT !.pool = [st.pool EXCEPT ![c] = img],
                    !.stored = st.stored \cup {img},
                    !.out = Append(st.out, st.pool[c]),
                    !.pushed = st.pushed \cup { <<st.pool[c], q>> },
                    !.from = Append(st.from, <<st.pool[c], q>>)]

RECURSIVE QueryBatch(_, _, _, _, _, _)
QueryBatch(st, batch, ch, i, cap, q) ==
    IF i > Len(batch) THEN st
    ELSE QueryBatch(QueryImage(st, batch[i], ch[i], cap, q), batch, ch, i + 1,
                    cap, q)

PoolInit ==
    /\ num_epochs = 1
    /\ n_src = 1
    /\ n_tgt = 1
    /\ cfgfile \in { Good(bs, ps, 0) : bs \in 1..MaxPoolBatch,
                                       ps \in 1..MaxPoolSize }
    /\ config = OptConfig
    /\ eta = 0
    /\ batch_size = cfgfile["batch_size"].v
    /\ pool_size = cfgfile["pool_size"].v
    /\ iter_per_epoch = 0
    /\ niter = 0
    /\ pc = "pool"
    /\ halt = "none"
    /\ params = [m \in Models |-> 0]
    /\ grads = [m \in Models |-> {}]
    /\ training = [m \in Models |-> TRUE]
    /\ iterStart = [m \in Models |-> 0]
    /\ fakes = [tgt |-> {}, src |-> {}, back |-> {}]
    /\ losses = [gen |-> NoLoss, dis_s |-> NoLoss, dis_t |-> NoLoss, dis |-> NoLoss]
    /\ k = 1
    /\ poolLen = [src |-> 0, tgt |-> 0]
    /\ trace = << >>
    /\ evals = << >>
    /\ ckpts = << >>
    /\ PoolIdle

\* pool.query(batch) with the random draws ch
Query ==
    /\ pc = "pool"
    /\ nquery < MaxQueries
    /\ \E ch \in [1..batch_size -> 0..PoolCapacity(pool_size, batch_size)] :
         LET q == nquery + 1
             batch == [i \in 1..batch_size |-> <<q, i>>]
             st == QueryBatch([pool |-> pool, stored |-> stored, out |-> << >>,
                               pushed |-> pushedOut, from |-> fromPool],
                              batch, ch, 1,
                              PoolCapacity(pool_size, batch_size), q)
         IN /\ nquery' = q
            /\ lastIn' = batch
            /\ lastOut' = st.out
            /\ pool' = st.pool
            /\ stored' = st.stored
            /\ pushedOut' = st.pushed
            /\ fromPool' = st.from
    /\ UNCHANGED trainvars

PoolNext == Query

SpecPool == PoolInit /\ [][PoolNext]_vars

\* ================================================================ claims
GenGroup == {"gen_s_t", "gen_t_s", "cls_s", "cls_t"}
DisGroup == {"dis_s", "dis_t"}
LoopLeft == pc = "halted" /\ halt # "config_error"
BelowThreshold == 4 * niter < 3 * num_epochs * iter_per_epoch
LastStep == trace[Len(trace)]

\* C1: for num_epochs >= 1 the training loop is left only by the break of
\* the terminal check, at the end of iteration num_epochs * iter_per_epoch.
C1_LoopEndsAtFinalEpoch ==
    (LoopLeft /\ num_epochs >= 1)
        => (halt = "break" /\ niter = num_epochs * iter_per_epoch)

\* C2: from the first iteration with niter >= 0.75 * num_epochs *
\* iter_per_epoch on, the curriculum check succeeds, eta is the weight.eta of
\* the loaded configuration, and the iteration goes on.
C2_CurriculumActivates ==
    (/\ num_epochs >= 1
     /\ niter >= 1
     /\ ~BelowThreshold
     /\ pc \notin {"start", "curriculum"}
     /\ "weight.eta" \in DOMAIN cfgfile)
        => (halt # "key_error" /\ eta = cfgfile["weight.eta"].v)

\* C3: in every iteration below the 75% threshold the weight of the
\* self-labeling term of loss_gen is exactly 0; eta is never non-zero before
\* the threshold iteration.
C3_CurriculumGate ==
    (pc # "start" /\ BelowThreshold)
        => (eta = 0 /\ losses.gen.eta = 0)

C3_Witness ==
    /\ pc = "detach"
    /\ BelowThreshold
    /\ niter >= 2
    /\ losses.gen.it = niter
    /\ "weight.eta" \in DOMAIN cfgfile
    /\ cfgfile["weight.eta"].v > 0

\* C4: when the run is over, every epoch e in 1..num_epochs with
\* e % 50 = 0 has exactly one checkpoint event, emitted at iteration
\* e * iter_per_epoch with all six models, and there is no other event.
C4_CheckpointEveryFiftyEpochs ==
    LoopLeft =>
        /\ \A e \in 1..num_epochs :
              e % 50 = 0 =>
                 Cardinality({ i \in DOMAIN ckpts : ckpts[i].epoch = e }) = 1
        /\ \A i \in DOMAIN ckpts :
              /\ ckpts[i].epoch % 50 = 0
              /\ ckpts[i].epoch \in 1..num_epochs
              /\ ckpts[i].niter = ckpts[i].epoch * iter_per_epoch
              /\ ckpts[i].models = Models

\* C5: a configuration lookup or cast fails only at startup, before any
\* batch is fetched.
C5_ConfigErrorsAtStartup ==
    halt \in {"config_error", "key_error"} => niter = 0

C6_OwnStep ==
    \A m \in Models :
        params'[m] # params[m] =>
            /\ pc = "step"
            /\ \/ LastStep' = <<"step", "opt_dis">> /\ m \in DisGroup
               \/ LastStep' = <<"step", "opt_gen">> /\ m \in GenGroup
C6_DisUntouched ==
    (/\ pc \in {"curriculum", "forward", "loss_gen", "detach", "query_src",
                "query_tgt", "loss_dis", "zero_grad", "backward", "step"}
     /\ \A i \in DOMAIN trace : trace[i] # <<"step", "opt_dis">>)
        => \A m \in DisGroup : params[m] = iterStart[m]
\* C6: parameters change only in an optimizer step, each step writes only
\* its own group, and the discriminator parameters keep their
\* start-of-iteration value until opt_dis.step().
C6_ParameterOwnership == [][C6_OwnStep /\ C6_DisUntouched']_vars

C6_Witness ==
    /\ pc = "periodic"
    /\ niter >= 2
    /\ \A m \in Models : params[m] = niter

\* C8: err_tgt passes happen only at epoch boundaries, once per epoch, never
\* for epoch 0 (the i-th pass is the one of epoch i), with cls_t in
\* inference mode; every training forward pass
\* runs with cls_s and cls_t in training mode.
C8_EvalModeDiscipline ==
    /\ \A i \in DOMAIN evals :
          /\ evals[i].niter % iter_per_epoch = 0
          /\ evals[i].epoch = evals[i].niter \div iter_per_epoch
          /\ evals[i].epoch = i
          /\ ~evals[i].training
    /\ pc \in {"eval_pass", "epoch_end"}
          => (~training["cls_t"] /\ niter % iter_per_epoch = 0)
    /\ pc \in {"fetch", "curriculum", "forward", "loss_gen", "detach",
               "query_src", "query_tgt", "loss_dis", "zero_grad", "backward",
               "step"}
          => (training["cls_s"] /\ training["cls_t"])

C8_Witness ==
    /\ pc = "loss_gen"
    /\ Len(evals) >= 2
    /\ niter = 2 * iter_per_epoch + 1

IterationSteps ==
    << <<"fetch", "">>, <<"curriculum", "">>, <<"forward", "">>,
       <<"loss_gen", "">>, <<"detach", "">>, <<"query", "src">>,
       <<"query", "tgt">>, <<"loss_dis", "">>,
       <<"zero_grad", "opt_dis">>, <<"backward", "loss_dis">>,
       <<"step", "opt_dis">>,
       <<"zero_grad", "opt_gen">>, <<"backward", "loss_gen">>,
       <<"step", "opt_gen">> >>
IterationDone ==
    /\ niter >= 1
    /\ \/ pc \in {"periodic", "eval_begin", "eval_pass", "epoch_end", "fetch"}
       \/ pc = "halted" /\ halt = "break"
\* C9: the steps of a completed iteration happen once each, in the order
\* fetch, curriculum check, forward, loss_gen, detach, query src, query tgt,
\* loss_dis, zero_grad/backward/step of opt_dis, zero_grad/backward/step of
\* opt_gen; both losses read the parameters of the start of the iteration.
C9_UpdateOrdering ==
    /\ Len(trace) <= Len(IterationSteps)
    /\ \A i \in DOMAIN trace : trace[i] = IterationSteps[i]
    /\ IterationDone =>
          /\ trace = IterationSteps
          /\ losses.gen.it = niter /\ losses.gen.read = iterStart
          /\ losses.dis.it = niter /\ losses.dis.read = iterStart
          /\ losses.dis_s.read = iterStart /\ losses.dis_t.read = iterStart

C9_Witness ==
    /\ IterationDone
    /\ niter >= 2
    /\ pc = "periodic"

\* C10: at opt_dis.step() the discriminator gradients come only from this
\* iteration's loss_dis; loss_dis leaves no gradient on a generator or
\* classifier; at opt_gen.step() the generator and classifier gradients come
\* only from this iteration's loss_gen.
C10_GradientIsolation ==
    /\ (pc = "step" /\ LastStep = <<"backward", "loss_dis">>)
          => \A m \in DisGroup : grads[m] = { <<"loss_dis", niter>> }
    /\ \A m \in GenGroup : \A g \in grads[m] : g[1] # "loss_dis"
    /\ (pc = "step" /\ LastStep = <<"backward", "loss_gen">>)
          => \A m \in GenGroup : grads[m] = { <<"loss_gen", niter>> }

C10_Witness ==
    /\ pc = "step"
    /\ LastStep = <<"backward", "loss_dis">>
    /\ niter >= 2
    /\ grads["gen_s_t"] = { <<"loss_gen", niter - 1>> }

PoolBounded == Len(pool) <= pool_size * batch_size
SameCount == Len(lastOut) = Len(lastIn)
ReturnedOnce ==
    /\ \A po \in pushedOut :
          /\ Cardinality({ j \in DOMAIN fromPool : fromPool[j][1] = po[1] }) = 1
          /\ \E j \in DOMAIN fromPool : fromPool[j] = po
    /\ \A j \in DOMAIN fromPool : fromPool[j] \in pushedOut
    /\ \A s \in DOMAIN pool : \A j \in DOMAIN fromPool : fromPool[j][1] # pool[s]
\* C7 as stated: the buffer holds at most pool_size * batch_size images, a
\* query returns as many images as it was given, output i is input i or an
\* image stored by an earlier query, and overwritten content is returned
\* exactly once, by the query that overwrote it.
C7_BufferIntegrity ==
    /\ PoolBounded
    /\ SameCount
    /\ \A i \in DOMAIN lastOut :
          \/ lastOut[i] = lastIn[i]
          \/ lastOut[i] \in stored /\ lastOut[i][1] < nquery
    /\ ReturnedOnce

\* C7 amended: output i is input i or an image stored earlier, by an earlier
\* query or by an earlier image of the same query.
C7_BufferIntegrityAmended ==
    /\ PoolBounded
    /\ SameCount
    /\ \A i \in DOMAIN lastOut :
          \/ lastOut[i] = lastIn[i]
          \/ /\ lastOut[i] \in stored
             /\ \/ lastOut[i][1] < nquery
                \/ lastOut[i][1] = nquery /\ lastOut[i][2] < i
    /\ ReturnedOnce

C7_Witness ==
    /\ Len(pool) = pool_size * batch_size
    /\ \E i \in DOMAIN lastOut :
          lastOut[i] # lastIn[i] /\ lastOut[i][1] = nquery
    /\ \E i \in DOMAIN lastOut :
          lastOut[i] # lastIn[i] /\ lastOut[i][1] < nquery

====
